---- MODULE Spec2Model ----
(***************************************************************************)
(* A model of rewst_remote_agent.py: the IoT Hub message handler, the      *)
(* command tasks it submits to the thread pool, the output handling of a   *)
(* command (strip, json.loads, error wrapper, json.dumps), the startup     *)
(* sequence of main() and the status update (heartbeat) task.              *)
(*                                                                         *)
(* Text is modelled as a sequence of tokens: a token is one character of   *)
(* the alphabet that matters to the code (":", "/", " ", "\n", "[", ...)   *)
(* or one literal chunk the code never looks inside ("https://",           *)
(* "powershell", "/bin/bash").  Python's None is the value None below.     *)
(***************************************************************************)
EXTENDS Integers, Sequences, FiniteSets, TLC

VARIABLES
    os_type,              \* line 16: platform.system() at import time
    config,               \* what load_config() will return (None or a config)
    check_mode,           \* args.check
    rewst_engine_host,    \* module global set by main() (line 165)
    main_pc,              \* position of main()
    exit_code,            \* process exit status, -1 while running
    on_message_received,  \* TRUE once main() registered message_handler
    received,             \* every message handed to message_handler, in order
    handled,              \* per received message: "submitted", "ignored", "raised"
    tasks,                \* executor work items, one per submit() (line 74)
    sent,                 \* device_client.send_message calls that completed
    http_posts,           \* httpx POST requests issued
    hb_pc,                \* position of status_update_task
    hb_sample,            \* status_data of the current cycle
    hb_cycles,            \* send attempts made by status_update_task
    trace,                \* history: the calls of main() and of status_update_task, in order
    u_pc,                 \* unit application of a function: position
    u_args,               \* unit application: arguments of execute_commands
    u_result,             \* unit application: what execute_commands did
    u_stdout,             \* unit application: bytes the child wrote to stdout
    u_command_output,     \* stdout.decode().strip()            (lines 119-120)
    u_message_data,       \* json.loads result or error wrapper (lines 147-152)
    u_message_json        \* json.dumps(message_data)           (line 154)

vars == <<os_type, config, check_mode, rewst_engine_host, main_pc, exit_code,
          on_message_received, received, handled, tasks, sent, http_posts,
          hb_pc, hb_sample, hb_cycles, trace,
          u_pc, u_args, u_result, u_stdout, u_command_output, u_message_data,
          u_message_json>>

prog_vars == <<os_type, config, check_mode, rewst_engine_host, main_pc, exit_code,
               on_message_received, received, handled, tasks, sent, http_posts,
               hb_pc, hb_sample, hb_cycles, trace>>

unit_vars == <<u_pc, u_args, u_result, u_stdout, u_command_output, u_message_data,
               u_message_json>>

----------------------------------------------------------------------------
(* Bounds of the model *)

MaxMsgs == 2        \* inbound messages delivered to message_handler
MaxBeats == 2       \* status update send attempts
MaxOut == 5         \* length of a child's stdout, in characters
MaxWorkers == 1     \* pool threads of the executor; stands for the library's
                    \* default min(32, cpu_count + 4) of ThreadPoolExecutor()

----------------------------------------------------------------------------
(* Python values and text *)

None == <<"<NoneType>">>

\* bool(x) of a str-or-None value: None and "" are falsy
Truthy(x) == x # None /\ x # <<>>

\* f"{x}": str(None) is "None"
Format(x) == IF x = None THEN <<"None">> ELSE x

\* `tok in s` for a chunk the model keeps whole
Contains(s, tok) == \E i \in 1..Len(s) : s[i] = tok

\* s.replace(a, b) for single characters
Replace(s, a, b) == [i \in 1..Len(s) |-> IF s[i] = a THEN b ELSE s[i]]

Whitespace == {" ", "\n"}

\* s.strip(): drop leading and trailing whitespace
Strip(s) ==
    LET keep == {i \in 1..Len(s) : s[i] \notin Whitespace}
    IN IF keep = {} THEN <<>>
       ELSE LET lo == CHOOSE i \in keep : \A j \in keep : i <= j
                hi == CHOOSE i \in keep : \A j \in keep : j <= i
            IN SubSeq(s, lo, hi)

----------------------------------------------------------------------------
(* The json library, on the JSON texts the model can write: whitespace,    *)
(* integers written with the digit 1, arrays, and anything else ("x").     *)

Alphabet == {" ", "\n", "1", "[", "]", ",", "x"}

DigitChars == <<"0", "1", "2", "3", "4", "5", "6", "7", "8", "9">>
IsDigit(c) == \E d \in 1..10 : DigitChars[d] = c
DigitValue(c) == (CHOOSE d \in 1..10 : DigitChars[d] = c) - 1

RECURSIVE Decimal(_)
\* str(n) of a natural number
Decimal(n) == IF n < 10 THEN <<DigitChars[n + 1]>>
              ELSE Decimal(n \div 10) \o <<DigitChars[(n % 10) + 1]>>

\* JSON values
JNum(n) == [t |-> "num", n |-> n, items |-> <<>>]
JArr(items) == [t |-> "arr", n |-> 0, items |-> items]

Parsed(v, e) == [ok |-> TRUE, val |-> v, end |-> e, msg |-> ""]
\* JSONDecodeError(msg, doc, pos): pos is the 1-based index of the character
Failed(m, p) == [ok |-> FALSE, val |-> JNum(0), end |-> p, msg |-> m]

\* WHITESPACE.match(s, i).end()
SkipWs(s, i) ==
    LET stop == {j \in i..Len(s) : s[j] \notin Whitespace}
    IN IF stop = {} THEN (IF i > Len(s) THEN i ELSE Len(s) + 1)
       ELSE CHOOSE j \in stop : \A k \in stop : j <= k

\* end of the run of digits starting at i (NUMBER_RE: no leading zero)
NumberEnd(s, i) ==
    IF s[i] = "0" THEN i + 1
    ELSE LET stop == {j \in i..Len(s) : ~IsDigit(s[j])}
         IN IF stop = {} THEN Len(s) + 1
            ELSE CHOOSE j \in stop : \A k \in stop : j <= k

RECURSIVE NumberValue(_, _, _)
NumberValue(s, i, e) ==
    IF e <= i THEN 0
    ELSE NumberValue(s, i, e - 1) * 10 + DigitValue(s[e - 1])

RECURSIVE scan_once(_, _)
RECURSIVE JSONArray(_, _, _)

\* json.scanner.py_make_scanner._scan_once(string, idx)
scan_once(s, i) ==
    IF i > Len(s) THEN Failed("Expecting value", i)
    ELSE IF s[i] = "[" THEN
        LET j == SkipWs(s, i + 1)
        IN IF j <= Len(s) /\ s[j] = "]" THEN Parsed(JArr(<<>>), j + 1)
           ELSE JSONArray(s, j, <<>>)
    ELSE IF IsDigit(s[i]) THEN
        LET e == NumberEnd(s, i) IN Parsed(JNum(NumberValue(s, i, e)), e)
    ELSE Failed("Expecting value", i)

\* json.decoder.JSONArray: the loop, positioned at the next value
JSONArray(s, i, acc) ==
    LET v == scan_once(s, i)
    IN IF ~v.ok THEN v
       ELSE LET j == SkipWs(s, v.end)
                items == Append(acc, v.val)
            IN IF j <= Len(s) /\ s[j] = "]" THEN Parsed(JArr(items), j + 1)
               ELSE IF j > Len(s) \/ s[j] # "," THEN Failed("Expecting ',' delimiter", j)
               ELSE JSONArray(s, SkipWs(s, j + 1), items)

\* json.loads(s): JSONDecoder.decode
json_loads(s) ==
    LET v == scan_once(s, SkipWs(s, 1))
    IN IF ~v.ok THEN v
       ELSE LET e == SkipWs(s, v.end)
            IN IF e # Len(s) + 1 THEN Failed("Extra data", e) ELSE v

\* str(e) of a JSONDecodeError: "<msg>: line L column C (char P)", P 0-based
DecodeErrorText(s, r) ==
    LET pos == r.end - 1
        newlines == {j \in 1..pos : s[j] = "\n"}
        lineno == Cardinality(newlines) + 1
        last == IF newlines = {} THEN 0
                ELSE CHOOSE j \in newlines : \A k \in newlines : k <= j
        colno == IF newlines = {} THEN pos + 1 ELSE pos - (last - 1)
    IN <<r.msg, ": line ">> \o Decimal(lineno) \o <<" column ">> \o Decimal(colno)
         \o <<" (char ">> \o Decimal(pos) \o <<")">>

\* the text of a JSON string literal: json.encoder escapes
Escape(s) == [i \in 1..Len(s) |-> IF s[i] = "\n" THEN "\\n" ELSE s[i]]

RECURSIVE json_dumps(_)
RECURSIVE JoinItems(_, _)
JoinItems(items, k) ==
    IF k > Len(items) THEN <<>>
    ELSE (IF k > 1 THEN <<",", " ">> ELSE <<>>) \o json_dumps(items[k])
           \o JoinItems(items, k + 1)

\* json.dumps(obj) with the default separators (", ", ": ")
json_dumps(v) ==
    IF v.t = "num" THEN Decimal(v.n)
    ELSE IF v.t = "arr" THEN <<"[">> \o JoinItems(v.items, 1) \o <<"]">>
    ELSE <<"{", "\"error\"", ": ", "\"">> \o Escape(v.error) \o <<"\"", ", ",
           "\"output\"", ": ", "\"">> \o Escape(v.output) \o <<"\"", "}">>


----------------------------------------------------------------------------
(* Inputs of the model *)

\* platform.system() returns "Windows", "Linux", "Darwin", "Java" or ""; the
\* comparisons of lines 83-86 tell none of them apart, two are drawn
PlatformSystem == {<<"Windows">>, <<"Linux">>}

Hosts == {<<"h.example.com">>}

\* load_config(): None (unreadable file or missing key), or the config
NoConfig == [loaded |-> FALSE, rewst_engine_host |-> None]
Configs == {NoConfig} \cup {[loaded |-> TRUE, rewst_engine_host |-> h] : h \in Hosts}

CommandTexts == {<<"echo 1">>}
PostIds == {<<>>, <<"abc", ":", "123", ":", "x">>}
Delimiters == {<<";">>}

\* A decoded JSON object with the keys in `keys`; a value is None where absent
JsonObject(keys, c, p, d, i) ==
    [kind |-> "object", keys |-> keys, commands |-> c, post_id |-> p,
     interpreter_delimiter |-> d, interpreter |-> i]

\* JSON that decodes to no object: ["commands"], 5
NotAnObject(k) == [JsonObject({}, None, None, None, None) EXCEPT !.kind = k]

\* message.data: JSON objects, JSON that is no object, and bytes that are no JSON
Messages ==
    {JsonObject({"post_id"}, None, p, None, None) : p \in PostIds \ {<<>>}}
    \cup {JsonObject({"commands"}, c, None, None, None) : c \in CommandTexts}
    \cup {JsonObject({"commands", "post_id"}, c, p, None, None) :
            c \in CommandTexts, p \in PostIds \ {<<>>}}
    \cup {JsonObject({"commands", "interpreter_delimiter", "interpreter"}, c, None, d,
                     <<"powershell">>) : c \in CommandTexts, d \in Delimiters}
    \cup {NotAnObject(k) : k \in {"array_with_commands", "number", "invalid"}}

\* psutil readings
CpuReadings == {"12.3", "0.0"}
MemReadings == {"45.6"}

\* what a child process may write to stdout
RECURSIVE TextsUpTo(_)
TextsUpTo(n) ==
    IF n = 0 THEN {<<>>}
    ELSE LET shorter == TextsUpTo(n - 1)
         IN shorter \cup {Append(t, c) : t \in {u \in shorter : Len(u) = n - 1}, c \in Alphabet}
Stdouts == TextsUpTo(MaxOut)
ChildStdouts == {<<"1", "\n">>, <<"[", "1", "]", "\n">>}


----------------------------------------------------------------------------
(* message_handler: what it reads from the decoded message *)

\* json.loads(message.data) raises on bytes that are no JSON
loads_raises(m) == m.kind = "invalid"

\* `"commands" in message_data` (line 69): key of a dict, element of a list,
\* substring of a str; a TypeError on a number
commands_in_raises(m) == m.kind = "number"
\* variant: the test of line 69 left out
commands_in_always(m) == TRUE
commands_in(m) ==
    IF m.kind = "object" THEN "commands" \in m.keys
    ELSE m.kind = "array_with_commands"

\* message_data["commands"] (line 70): a TypeError on a list or a str
subscript_raises(m) == m.kind # "object"

\* message_data.get(key, default) (lines 71-72)
Get(m, key, default) ==
    IF key \notin m.keys THEN default
    ELSE IF key = "post_id" THEN m.post_id
    ELSE IF key = "interpreter_delimiter" THEN m.interpreter_delimiter
    ELSE IF key = "commands" THEN m.commands
    ELSE m.interpreter

Unbound == <<"<unbound local>">>

\* variant: the message's interpreter field is passed on as the override
submit_with_interpreter(k, m) ==
    [msg |-> k,
     commands |-> m.commands,
     post_id |-> Get(m, "post_id", None),
     rewst_engine_host |-> None,
     interpreter_override |-> Get(m, "interpreter", None),
     interpreter_delimiter |-> Get(m, "interpreter_delimiter", <<"\n">>),
     pc |-> "queued",
     post_url |-> Unbound,
     interpreter |-> Unbound,
     command |-> Unbound,
     spawned |-> <<>>,
     message_json |-> Unbound,
     raised |-> "none"]
\* the arguments of executor.submit(run_handle_commands, commands, post_id,
\* None, None, interpreter_delimiter) (line 74), as a queued work item
submit(k, m) ==
    [msg |-> k,
     commands |-> m.commands,
     post_id |-> Get(m, "post_id", None),
     rewst_engine_host |-> None,
     interpreter_override |-> None,
     interpreter_delimiter |-> Get(m, "interpreter_delimiter", <<"\n">>),
     pc |-> "queued",
     post_url |-> Unbound,
     interpreter |-> Unbound,
     command |-> Unbound,
     spawned |-> <<>>,
     message_json |-> Unbound,
     raised |-> "none"]

----------------------------------------------------------------------------
(* execute_commands and handle_commands as functions of their arguments *)

\* lines 83-88
default_interpreter(os) ==
    IF os = <<"windows">> THEN <<"powershell">>
    ELSE IF os = <<"darwin">> THEN <<"/bin/zsh">>
    ELSE <<"/bin/bash">>

\* line 89: interpreter_override or default_interpreter
resolve(os, interpreter_override) ==
    IF Truthy(interpreter_override) THEN interpreter_override
    ELSE default_interpreter(os)

\* lines 95-98
preamble(post_url) ==
    <<"[Net.ServicePointManager]::SecurityProtocol = [Net.SecurityProtocolType]::Tls12",
      "\n", "$post_url = '">> \o Format(post_url) \o <<"'", "\n">>

\* the names execute_commands binds before line 109, and the module's globals
ExecuteCommandsLocals ==
    {"commands", "post_url", "interpreter_override", "interpreter_delimiter",
     "default_interpreter", "interpreter", "preamble", "command"}
ModuleGlobals ==
    {"argparse", "asyncio", "httpx", "json", "logging", "os", "platform", "psutil",
     "ThreadPoolExecutor", "IoTHubDeviceClient",
     "status_update_checkin_time", "os_type", "executor", "send_status_update",
     "load_config", "get_connection_string", "message_handler",
     "run_handle_commands", "execute_commands", "handle_commands", "main",
     "rewst_engine_host", "device_client"}

\* variant: the name is bound to the command text
all_commands_is_commands(commands) == [bound |-> TRUE, value |-> commands]
\* reading the name all_commands in the f-string of line 109: it is assigned
\* nowhere, so the lookup raises NameError
all_commands(commands) ==
    IF "all_commands" \in ExecuteCommandsLocals \cup ModuleGlobals
    THEN [bound |-> TRUE, value |-> commands]
    ELSE [bound |-> FALSE, value |-> None]

\* f'{interpreter} -c "{...}"' (lines 105 and 109)
dash_c(interpreter, text) == interpreter \o <<" -c \"">> \o text \o <<"\"">>

\* variant: the output is not stripped
decode_unstripped(stdout) == stdout
\* lines 119-120: stdout.decode('utf-8').strip()
decode_strip(stdout) == Strip(stdout)

\* lines 147-152 (and 123-127): json.loads, or the error wrapper
error_wrapper(command_output, r) ==
    [t |-> "obj",
     error |-> <<"Error decoding command output as JSON: ">>
                 \o DecodeErrorText(command_output, r),
     output |-> command_output]
\* variant: the output is wrapped whether or not it parses
parse_output_always_wrapped(command_output) ==
    error_wrapper(command_output, json_loads(command_output))
parse_output(command_output) ==
    LET r == json_loads(command_output)
    IN IF r.ok THEN r.val ELSE error_wrapper(command_output, r)

\* lines 142-144
callback_url(post_id, host) ==
    <<"https://">> \o Format(host) \o <<"/webhooks/custom/action/">>
        \o Replace(post_id, ":", "/")

\* variant: the command runs and lines 122-137 post its result, whatever the
\* interpreter
execute_commands_posting(os, commands, post_url, interpreter_override, stdout) ==
    LET interpreter == resolve(os, interpreter_override)
    IN [interpreter |-> interpreter, commands |-> commands, command |-> commands,
        raised |-> "none", spawned |-> <<dash_c(interpreter, commands)>>,
        returned |-> decode_strip(stdout),
        posts |-> <<[url |-> post_url, json |-> parse_output(decode_strip(stdout))]>>]
\* execute_commands (lines 81-137) for a child that writes `stdout`:
\* what it raised or returned, what it spawned and what it posted
execute_commands(os, commands, post_url, interpreter_override, stdout) ==
    LET interpreter == resolve(os, interpreter_override)
        text == IF Contains(interpreter, "powershell")
                THEN preamble(post_url) \o commands      \* line 100
                ELSE commands
        command == IF Truthy(interpreter_override)
                   THEN dash_c(interpreter, text)        \* line 105
                   ELSE text                             \* line 108
        name == all_commands(commands)                   \* line 109
    IN IF ~name.bound
       THEN [interpreter |-> interpreter, commands |-> text, command |-> command,
             raised |-> "NameError", spawned |-> <<>>, returned |-> None,
             posts |-> <<>>]
       ELSE \* lines 109-120; the return of line 120 ends the function, so
            \* lines 122-137 (the httpx POST) never run
            [interpreter |-> interpreter, commands |-> text,
             command |-> dash_c(interpreter, name.value),
             raised |-> "none",
             spawned |-> <<dash_c(interpreter, name.value)>>,
             returned |-> decode_strip(stdout),
             posts |-> <<>>]

\* variant: execute_commands returns what the child wrote
handle_commands_call_returning(os, commands, post_id, host, interpreter_override, stdout) ==
    [post_url |-> IF Truthy(post_id) THEN callback_url(post_id, host) ELSE Unbound,
     exec |-> [interpreter |-> resolve(os, interpreter_override),
               commands |-> commands, command |-> commands, raised |-> "none",
               spawned |-> <<dash_c(resolve(os, interpreter_override), commands)>>,
               returned |-> decode_strip(stdout), posts |-> <<>>],
     message_json |-> json_dumps(parse_output(decode_strip(stdout)))]
\* handle_commands (lines 141-154) up to the send: the callback URL, the
\* call of execute_commands and the text json.dumps gives for its result
handle_commands_call(os, commands, post_id, host, interpreter_override, stdout) ==
    LET post_url == IF Truthy(post_id) THEN callback_url(post_id, host)
                    ELSE Unbound
        \* line 146: rewst_engine_host is passed where post_url is expected
        r == execute_commands(os, commands, host, interpreter_override, stdout)
    IN [post_url |-> post_url,
        exec |-> r,
        message_json |-> IF r.raised = "none"
                         THEN json_dumps(parse_output(r.returned))
                         ELSE Unbound]

----------------------------------------------------------------------------
(* main() *)

Running == exit_code = -1

\* one entry of the history: who called what, whether it returned normally
\* (ok) or raised, and the argument or the value it gave
Call(by, op, ok, val) == [by |-> by, op |-> op, ok |-> ok, val |-> val]

\* lines 161-166
main_load_config ==
    /\ Running /\ main_pc = "load_config"
    /\ IF ~config.loaded
       THEN /\ exit_code' = 1                      \* exit(1), line 163
            /\ main_pc' = "exited"
            /\ UNCHANGED rewst_engine_host
       ELSE /\ rewst_engine_host' = config.rewst_engine_host
            /\ main_pc' = "connect"
            /\ UNCHANGED exit_code
    /\ UNCHANGED <<os_type, config, check_mode, on_message_received, received,
                   handled, tasks, sent, http_posts, hb_pc, hb_sample, hb_cycles, trace>>
    /\ UNCHANGED unit_vars

\* line 170: await device_client.connect(); an exception ends the process
main_connect ==
    /\ Running /\ main_pc = "connect"
    /\ \E ok \in BOOLEAN :
         /\ trace' = Append(trace, Call("main", "connect", ok, <<>>))
         /\ IF ok
            THEN /\ main_pc' = IF check_mode THEN "check_send" ELSE "register"
                 /\ UNCHANGED exit_code
            ELSE /\ main_pc' = "exited"
                 /\ exit_code' = 1
    /\ UNCHANGED <<os_type, config, check_mode, rewst_engine_host,
                   on_message_received, received, handled, tasks, sent, http_posts,
                   hb_pc, hb_sample, hb_cycles>>
    /\ UNCHANGED unit_vars

TestPayload == <<"{", "\"test_message\"", ": ", "\"", "Test message from device", "\"", "}">>

\* lines 176-181: the test send; the exception, if any, is kept in e
main_check_send ==
    /\ Running /\ main_pc = "check_send"
    /\ \E ok \in BOOLEAN :
         /\ trace' = Append(trace, Call("main", "send_message", ok, TestPayload))
         /\ IF ok
            THEN /\ sent' = Append(sent, [src |-> "test", task |-> 0,
                                          payload |-> TestPayload])
                 /\ main_pc' = "check_disconnect_ok"
            ELSE /\ main_pc' = "check_disconnect_failed"
                 /\ UNCHANGED sent
    /\ UNCHANGED <<os_type, config, check_mode, rewst_engine_host, exit_code,
                   on_message_received, received, handled, tasks, http_posts,
                   hb_pc, hb_sample, hb_cycles>>
    /\ UNCHANGED unit_vars

\* lines 182-184: finally: disconnect, then exit(0 if not e else 1); an
\* exception of disconnect() leaves the finally block before exit() is called
main_check_disconnect ==
    /\ Running /\ main_pc \in {"check_disconnect_ok", "check_disconnect_failed"}
    /\ \E ok \in BOOLEAN :
         /\ trace' = Append(trace, Call("main", "disconnect", ok, <<>>))
         /\ exit_code' = IF ok /\ main_pc = "check_disconnect_ok" THEN 0 ELSE 1
    /\ main_pc' = "exited"
    /\ UNCHANGED <<os_type, config, check_mode, rewst_engine_host,
                   on_message_received, received, handled, tasks, sent, http_posts,
                   hb_pc, hb_sample, hb_cycles>>
    /\ UNCHANGED unit_vars

\* lines 187-194: register the handler, create the status update task, wait
main_register ==
    /\ Running /\ main_pc = "register"
    /\ on_message_received' = TRUE
    /\ hb_pc' = "sample"
    /\ main_pc' = "serving"
    /\ UNCHANGED <<os_type, config, check_mode, rewst_engine_host, exit_code,
                   received, handled, tasks, sent, http_posts, hb_sample, hb_cycles, trace>>
    /\ UNCHANGED unit_vars

----------------------------------------------------------------------------
(* status_update_task (lines 188-191) and send_status_update (lines 21-32) *)

status_update_checkin_time == 600

\* variant: a payload without the memory reading
StatusPayload_cpu_only(d) == <<"{", "\"cpu_usage\"", ": ", d.cpu_usage, "}">>
\* json.dumps(status_data), lines 23-30
StatusPayload(d) ==
    <<"{", "\"cpu_usage\"", ": ", d.cpu_usage, ", ", "\"memory_usage\"", ": ",
      d.memory_usage, "}">>

\* lines 23-28
hb_collect ==
    /\ Running /\ hb_pc = "sample" /\ hb_cycles < MaxBeats
    /\ \E c \in CpuReadings, m \in MemReadings :
         /\ hb_sample' = [cpu_usage |-> c, memory_usage |-> m]
         /\ trace' = Append(trace, Call("status_update_task", "sample", TRUE,
                                        [cpu_usage |-> c, memory_usage |-> m]))
    /\ hb_pc' = "send"
    /\ UNCHANGED <<os_type, config, check_mode, rewst_engine_host, main_pc,
                   exit_code, on_message_received, received, handled, tasks, sent,
                   http_posts, hb_cycles>>
    /\ UNCHANGED unit_vars

\* line 31: an exception of send_message leaves send_status_update and the
\* while loop of status_update_task: the task ends
hb_send ==
    /\ Running /\ hb_pc = "send"
    /\ hb_cycles' = hb_cycles + 1
    /\ \E ok \in BOOLEAN :
         /\ trace' = Append(trace, Call("status_update_task", "send_message", ok,
                                        StatusPayload(hb_sample)))
         /\ IF ok
            THEN /\ sent' = Append(sent, [src |-> "status", task |-> 0,
                                          payload |-> StatusPayload(hb_sample)])
                 /\ hb_pc' = "sleep"
            ELSE /\ hb_pc' = "ended"
                 /\ UNCHANGED sent
    /\ UNCHANGED <<os_type, config, check_mode, rewst_engine_host, main_pc,
                   exit_code, on_message_received, received, handled, tasks,
                   http_posts, hb_sample>>
    /\ UNCHANGED unit_vars

\* line 191: asyncio.sleep(status_update_checkin_time)
hb_sleep ==
    /\ Running /\ hb_pc = "sleep"
    /\ hb_pc' = "sample"
    /\ trace' = Append(trace, Call("status_update_task", "sleep", TRUE,
                                   status_update_checkin_time))
    /\ UNCHANGED <<os_type, config, check_mode, rewst_engine_host, main_pc,
                   exit_code, on_message_received, received, handled, tasks, sent,
                   http_posts, hb_sample, hb_cycles>>
    /\ UNCHANGED unit_vars


----------------------------------------------------------------------------
(* The message handler and the command tasks *)

\* variant: a handler that waits for the work it submitted earlier
message_handler_waiting(m) ==
    /\ Running /\ on_message_received
    /\ Len(received) < MaxMsgs
    /\ \A t \in 1..Len(tasks) : tasks[t].pc = "finished"
    /\ received' = Append(received, m)
    /\ handled' = Append(handled, IF m.kind = "object" /\ "commands" \in m.keys
                                  THEN "submitted" ELSE "ignored")
    /\ tasks' = IF m.kind = "object" /\ "commands" \in m.keys
                THEN Append(tasks, submit(Len(received) + 1, m)) ELSE tasks
    /\ UNCHANGED <<os_type, config, check_mode, rewst_engine_host, main_pc,
                   exit_code, on_message_received, sent, http_posts, hb_pc,
                   hb_sample, hb_cycles, trace>>
    /\ UNCHANGED unit_vars

\* message_handler (lines 66-74), called by the client for one message
message_handler(m) ==
    /\ Running /\ on_message_received
    /\ Len(received) < MaxMsgs
    /\ received' = Append(received, m)
    /\ IF loads_raises(m) \/ commands_in_raises(m)
       THEN /\ handled' = Append(handled, "raised")
            /\ UNCHANGED tasks
       ELSE IF ~commands_in(m)
       THEN /\ handled' = Append(handled, "ignored")
            /\ UNCHANGED tasks
       ELSE IF subscript_raises(m)
       THEN /\ handled' = Append(handled, "raised")
            /\ UNCHANGED tasks
       ELSE /\ handled' = Append(handled, "submitted")
            /\ tasks' = Append(tasks, submit(Len(received) + 1, m))
    /\ UNCHANGED <<os_type, config, check_mode, rewst_engine_host, main_pc,
                   exit_code, on_message_received, sent, http_posts, hb_pc,
                   hb_sample, hb_cycles, trace>>
    /\ UNCHANGED unit_vars

\* the work items a pool thread is running
Busy == {t \in 1..Len(tasks) : tasks[t].pc \in {"running", "sending"}}

\* variant: a pool that starts a thread for every work item
run_handle_commands_uncapped(t) ==
    /\ Running
    /\ tasks[t].pc = "queued"
    /\ tasks' = [tasks EXCEPT ![t].pc = "running"]
    /\ UNCHANGED <<os_type, config, check_mode, rewst_engine_host, main_pc,
                   exit_code, on_message_received, received, handled, sent,
                   http_posts, hb_pc, hb_sample, hb_cycles, trace>>
    /\ UNCHANGED unit_vars

\* a free pool thread of executor (line 17) takes the work item:
\* run_handle_commands, asyncio.run (line 78)
run_handle_commands(t) ==
    /\ Running
    /\ tasks[t].pc = "queued"
    /\ Cardinality(Busy) < MaxWorkers
    /\ tasks' = [tasks EXCEPT ![t].pc = "running"]
    /\ UNCHANGED <<os_type, config, check_mode, rewst_engine_host, main_pc,
                   exit_code, on_message_received, received, handled, sent,
                   http_posts, hb_pc, hb_sample, hb_cycles, trace>>
    /\ UNCHANGED unit_vars

Posts(t, posts) == [i \in 1..Len(posts) |-> [task |-> t, url |-> posts[i].url,
                                              json |-> posts[i].json]]

\* variant: an exception of a command task ends the process and with it the
\* status update task
handle_commands_fatal(t) ==
    /\ Running
    /\ tasks[t].pc = "running"
    /\ tasks' = [tasks EXCEPT ![t].pc = "finished", ![t].raised = "NameError"]
    /\ exit_code' = 1
    /\ hb_pc' = "ended"
    /\ UNCHANGED <<os_type, config, check_mode, rewst_engine_host, main_pc,
                   on_message_received, received, handled, sent, http_posts,
                   hb_sample, hb_cycles, trace>>
    /\ UNCHANGED unit_vars

\* handle_commands (lines 141-156) in its pool thread: first everything up
\* to json.dumps (line 154), then the await of send_message (line 155); an
\* exception ends the task and stays in its future
handle_commands(t) ==
    /\ Running
    /\ tasks[t].pc \in {"running", "sending"}
    /\ IF tasks[t].pc = "running"
       THEN \E stdout \in ChildStdouts :
              LET a == tasks[t]
                  h == handle_commands_call(os_type, a.commands, a.post_id,
                                            a.rewst_engine_host,
                                            a.interpreter_override, stdout)
                  r == h.exec
                  next == [a EXCEPT !.pc = IF r.raised = "none" THEN "sending"
                                           ELSE "finished",
                                    !.post_url = h.post_url,
                                    !.interpreter = r.interpreter,
                                    !.command = r.command,
                                    !.spawned = r.spawned,
                                    !.message_json = h.message_json,
                                    !.raised = r.raised]
              IN /\ tasks' = [tasks EXCEPT ![t] = next]
                 /\ http_posts' = http_posts \o Posts(t, r.posts)
                 /\ UNCHANGED sent
       ELSE \E ok \in BOOLEAN :
              /\ tasks' = [tasks EXCEPT ![t].pc = "finished",
                                        ![t].raised = IF ok THEN "none"
                                                      ELSE "TransportError"]
              /\ sent' = IF ok
                         THEN Append(sent, [src |-> "result", task |-> t,
                                            payload |-> tasks[t].message_json])
                         ELSE sent
              /\ UNCHANGED http_posts
    /\ UNCHANGED <<os_type, config, check_mode, rewst_engine_host, main_pc,
                   exit_code, on_message_received, received, handled, hb_pc,
                   hb_sample, hb_cycles, trace>>
    /\ UNCHANGED unit_vars

----------------------------------------------------------------------------
(* The program *)

UnitIdle ==
    /\ u_pc = "idle"
    /\ u_args = [commands |-> <<>>, post_url |-> None, interpreter_override |-> None]
    /\ u_result = [raised |-> "none"]
    /\ u_stdout = <<>>
    /\ u_command_output = <<>>
    /\ u_message_data = JNum(0)
    /\ u_message_json = <<>>

ProgramStart ==
    /\ rewst_engine_host = Unbound
    /\ main_pc = "load_config"
    /\ exit_code = -1
    /\ on_message_received = FALSE
    /\ received = <<>>
    /\ handled = <<>>
    /\ tasks = <<>>
    /\ sent = <<>>
    /\ http_posts = <<>>
    /\ hb_pc = "not created"
    /\ hb_sample = [cpu_usage |-> "0.0", memory_usage |-> "0.0"]
    /\ hb_cycles = 0
    /\ trace = <<>>

Init ==
    /\ os_type \in PlatformSystem
    /\ config \in Configs
    /\ check_mode \in BOOLEAN
    /\ ProgramStart
    /\ UnitIdle

Next ==
    \/ main_load_config
    \/ main_connect
    \/ main_check_send
    \/ main_check_disconnect
    \/ main_register
    \/ hb_collect
    \/ hb_send
    \/ hb_sleep
    \/ \E m \in Messages : message_handler(m)
    \/ \E t \in 1..Len(tasks) : run_handle_commands(t)
    \/ \E t \in 1..Len(tasks) : handle_commands(t)

Spec == Init /\ [][Next]_vars


----------------------------------------------------------------------------
(* execute_commands applied to arguments of its own: any override, any     *)
(* post_url, on any platform                                               *)

Overrides ==
    {None, <<>>, <<"powershell">>, <<"C:\\Windows\\", "powershell", ".exe">>,
     <<"/bin/sh">>, <<"python3">>}
PostUrls == {None} \cup {callback_url(p, h) : p \in PostIds \ {<<>>}, h \in Hosts}

ExecArgs ==
    [commands : CommandTexts \cup {<<"Get-Date">>}, post_url : PostUrls,
     interpreter_override : Overrides]

InitExec ==
    /\ os_type \in PlatformSystem
    /\ config = NoConfig
    /\ check_mode = FALSE
    /\ ProgramStart
    /\ u_pc = "call"
    /\ u_args \in ExecArgs
    /\ u_result = [raised |-> "none"]
    /\ u_stdout \in ChildStdouts
    /\ u_command_output = <<>>
    /\ u_message_data = JNum(0)
    /\ u_message_json = <<>>

\* await execute_commands(commands, post_url, interpreter_override)
u_execute_commands ==
    /\ u_pc = "call"
    /\ LET r == execute_commands(os_type, u_args.commands, u_args.post_url,
                                 u_args.interpreter_override, u_stdout)
       IN /\ u_result' = r
          /\ http_posts' = http_posts \o Posts(0, r.posts)
          /\ u_pc' = IF r.raised = "none" THEN "returned" ELSE "raised"
    /\ UNCHANGED <<os_type, config, check_mode, rewst_engine_host, main_pc,
                   exit_code, on_message_received, received, handled, tasks, sent,
                   hb_pc, hb_sample, hb_cycles, trace>>
    /\ UNCHANGED <<u_args, u_stdout, u_command_output, u_message_data, u_message_json>>

NextExec == u_execute_commands

ExecSpec == InitExec /\ [][NextExec]_vars

----------------------------------------------------------------------------
(* The output handling of a command applied to any stdout: lines 119-120   *)
(* of execute_commands, then lines 147-155 of handle_commands              *)

InitOutput ==
    /\ os_type = <<"Linux">>
    /\ config = NoConfig
    /\ check_mode = FALSE
    /\ ProgramStart
    /\ u_pc = "decode"
    /\ u_args = [commands |-> <<>>, post_url |-> None, interpreter_override |-> None]
    /\ u_result = [raised |-> "none"]
    /\ u_stdout \in Stdouts
    /\ u_command_output = <<>>
    /\ u_message_data = JNum(0)
    /\ u_message_json = <<>>

\* lines 119-120
u_decode ==
    /\ u_pc = "decode"
    /\ u_command_output' = decode_strip(u_stdout)
    /\ u_pc' = "parse"
    /\ UNCHANGED prog_vars
    /\ UNCHANGED <<u_args, u_result, u_stdout, u_message_data, u_message_json>>

\* lines 147-152
u_parse ==
    /\ u_pc = "parse"
    /\ u_message_data' = parse_output(u_command_output)
    /\ u_pc' = "dumps"
    /\ UNCHANGED prog_vars
    /\ UNCHANGED <<u_args, u_result, u_stdout, u_command_output, u_message_json>>

\* lines 154-155
u_send ==
    /\ u_pc = "dumps"
    /\ u_message_json' = json_dumps(u_message_data)
    /\ sent' = Append(sent, [src |-> "result", task |-> 0,
                             payload |-> json_dumps(u_message_data)])
    /\ u_pc' = "sent"
    /\ UNCHANGED <<os_type, config, check_mode, rewst_engine_host, main_pc,
                   exit_code, on_message_received, received, handled, tasks,
                   http_posts, hb_pc, hb_sample, hb_cycles, trace>>
    /\ UNCHANGED <<u_args, u_result, u_stdout, u_command_output, u_message_data>>

NextOutput == u_decode \/ u_parse \/ u_send

OutputSpec == InitOutput /\ [][NextOutput]_vars


----------------------------------------------------------------------------
(* handle_commands applied to arguments of its own: any post_id, engine    *)
(* host and override, on any platform                                      *)

HandleArgs ==
    [commands : CommandTexts \cup {<<"Get-Date">>},
     post_id : PostIds \cup {None},
     rewst_engine_host : Hosts \cup {None},
     interpreter_override : Overrides]

InitHandle ==
    /\ os_type \in PlatformSystem
    /\ config = NoConfig
    /\ check_mode = FALSE
    /\ ProgramStart
    /\ u_pc = "call_handle"
    /\ u_args \in HandleArgs
    /\ u_result = [raised |-> "none"]
    /\ u_stdout \in ChildStdouts
    /\ u_command_output = <<>>
    /\ u_message_data = JNum(0)
    /\ u_message_json = <<>>

\* await handle_commands(commands, post_id, rewst_engine_host,
\*                       interpreter_override)
u_handle_commands ==
    /\ u_pc = "call_handle"
    /\ LET h == handle_commands_call(os_type, u_args.commands, u_args.post_id,
                                     u_args.rewst_engine_host,
                                     u_args.interpreter_override, u_stdout)
       IN /\ u_result' = h
          /\ http_posts' = http_posts \o Posts(0, h.exec.posts)
          /\ IF h.exec.raised = "none"
             THEN /\ sent' = Append(sent, [src |-> "result", task |-> 0,
                                          payload |-> h.message_json])
                  /\ u_pc' = "handled"
             ELSE /\ UNCHANGED sent
                  /\ u_pc' = "handle_raised"
    /\ UNCHANGED <<os_type, config, check_mode, rewst_engine_host, main_pc,
                   exit_code, on_message_received, received, handled, tasks,
                   hb_pc, hb_sample, hb_cycles, trace>>
    /\ UNCHANGED <<u_args, u_stdout, u_command_output, u_message_data, u_message_json>>

NextHandle == u_handle_commands

HandleSpec == InitHandle /\ [][NextHandle]_vars

----------------------------------------------------------------------------
(* Properties *)

HasCommandsKey(m) == m.kind = "object" /\ "commands" \in m.keys
Decoded(m) == m.kind # "invalid"
Finished(t) == tasks[t].pc = "finished"
InFlight(t) == tasks[t].pc \in {"queued", "running"}
ResultSends(t) == {i \in 1..Len(sent) : sent[i].src = "result" /\ sent[i].task = t}
PostsOf(t) == {i \in 1..Len(http_posts) : http_posts[i].task = t}

\* C1: a message with a `commands` key and no post_id leads to exactly one
\* command-result send_message: once its task has ended, one result has
\* been sent for it.
C1_ResultSentOnce ==
    \A t \in 1..Len(tasks) :
        (Finished(t) /\ tasks[t].post_id = None) => Cardinality(ResultSends(t)) = 1

\* C2: a message whose decoded body has no `commands` key submits no task
\* and causes no transport send and no HTTP POST, in any state after it.
C2_NoCommandsNoEffect ==
    \A k \in 1..Len(received) :
        (Decoded(received[k]) /\ ~HasCommandsKey(received[k])) =>
            /\ handled[k] # "submitted"
            /\ \A t \in 1..Len(tasks) : tasks[t].msg # k
            /\ \A i \in 1..Len(sent) :
                 sent[i].src = "result" => tasks[sent[i].task].msg # k
            /\ \A i \in 1..Len(http_posts) : tasks[http_posts[i].task].msg # k

C2_Witness ==
    \E k \in 1..Len(received) :
        /\ Decoded(received[k]) /\ ~HasCommandsKey(received[k])
        /\ received[k].keys = {"post_id"}
        /\ \E t \in 1..Len(tasks) : tasks[t].msg > k /\ Finished(t)

\* C3: a command with a post_id whose interpreter is not PowerShell has its
\* result delivered by an HTTP POST to the callback URL of that post_id:
\* once its task has ended, that POST has been issued.
C3_ResultPosted ==
    \A t \in 1..Len(tasks) :
        (Finished(t) /\ Truthy(tasks[t].post_id)
           /\ ~Contains(tasks[t].interpreter, "powershell")) =>
            \E i \in PostsOf(t) :
                http_posts[i].url = callback_url(tasks[t].post_id, rewst_engine_host)

C5_PowershellNeverPosts ==
    (u_pc \in {"returned", "raised"} /\ Contains(u_result.interpreter, "powershell"))
        => (u_result.posts = <<>> /\ http_posts = <<>>)

C5_Witness ==
    /\ u_pc \in {"returned", "raised"}
    /\ Contains(u_result.interpreter, "powershell")
    /\ u_result.interpreter # <<"powershell">>
    /\ u_args.post_url # None
    /\ http_posts = <<>>

\* C6: for stdout whose trimmed text is not valid JSON, the delivered result
\* is the error wrapper: the fields error (the parse error message) and
\* output (the stdout text with surrounding whitespace stripped), and
\* nothing else; the result is delivered, the parse error is not raised.
C6_ErrorWrapper ==
    (u_pc = "sent" /\ ~json_loads(Strip(u_stdout)).ok) =>
        LET text == Strip(u_stdout)
            message == <<"Error decoding command output as JSON: ">>
                         \o DecodeErrorText(text, json_loads(text))
        IN /\ DOMAIN u_message_data = {"t", "error", "output"}
           /\ u_message_data.t = "obj"
           /\ u_message_data.error = message
           /\ u_message_data.output = text
           /\ Len(sent) = 1
           /\ sent[1].payload =
                <<"{", "\"error\"", ": ", "\"">> \o Escape(message) \o <<"\"", ", ",
                  "\"output\"", ": ", "\"">> \o Escape(text) \o <<"\"", "}">>

C6_Witness ==
    /\ u_pc = "sent"
    /\ ~json_loads(Strip(u_stdout)).ok
    /\ Strip(u_stdout) # u_stdout
    /\ Strip(u_stdout) # <<>>
    /\ Len(sent) = 1

\* C7: for stdout whose trimmed text is valid JSON, the delivered payload
\* parses back to the value that parsing the stdout gives.
C7_RoundTrip ==
    (u_pc = "sent" /\ json_loads(Strip(u_stdout)).ok) =>
        /\ Len(sent) = 1
        /\ json_loads(sent[1].payload).ok
        /\ json_loads(sent[1].payload).val = json_loads(Strip(u_stdout)).val

C7_Witness ==
    /\ u_pc = "sent"
    /\ json_loads(Strip(u_stdout)).ok
    /\ json_loads(Strip(u_stdout)).val.t = "arr"
    /\ Len(json_loads(Strip(u_stdout)).val.items) = 2
    /\ sent[1].payload # u_stdout

\* C8: a non-empty override is the interpreter; with no override it is
\* "powershell" on Windows, "/bin/zsh" on Darwin and "/bin/bash" elsewhere,
\* for the platform value the program obtained at startup.
C8_InterpreterResolution ==
    \A t \in 1..Len(tasks) :
        Finished(t) =>
            tasks[t].interpreter =
                IF Truthy(tasks[t].interpreter_override) THEN tasks[t].interpreter_override
                ELSE IF os_type = <<"Windows">> THEN <<"powershell">>
                ELSE IF os_type = <<"Darwin">> THEN <<"/bin/zsh">>
                ELSE <<"/bin/bash">>

\* C9: the callback URL computed for a command message with a post_id is
\* https://<configured engine host>/webhooks/custom/action/<post_id with
\* every ":" replaced by "/">.
C9_CallbackUrl ==
    \A t \in 1..Len(tasks) :
        (Finished(t) /\ Truthy(tasks[t].post_id)) =>
            tasks[t].post_url =
                <<"https://">> \o rewst_engine_host \o <<"/webhooks/custom/action/">>
                    \o Replace(tasks[t].post_id, ":", "/")

\* C10: message_handler does not wait for the commands it dispatched: while
\* a command is in flight, the handler can take any further message.
C10_HandlerNeverWaits ==
    (Running /\ on_message_received /\ Len(received) < MaxMsgs
       /\ \E t \in 1..Len(tasks) : InFlight(t)) =>
        \A m \in Messages : ENABLED message_handler(m)

C10_Witness ==
    \E a \in 1..Len(tasks) :
        /\ tasks[a].pc = "running"
        /\ \E k \in 1..Len(handled) : k > tasks[a].msg /\ handled[k] = "submitted"

Raised(t) == Finished(t) /\ tasks[t].raised # "none"
\* the text of an object whose first field is "error" (json.dumps keeps the
\* order error, output of lines 150-152)
WrapperShape(payload) ==
    Len(payload) > 2 /\ payload[1] = "{" /\ payload[2] = "\"error\""
FailedSends ==
    {i \in 1..Len(trace) : trace[i].op = "send_message" /\ ~trace[i].ok}

\* C11: the step in which a command task fails leaves everything else as it
\* was: the process keeps running, the handler stays registered, every
\* other work item keeps its state, the status update task keeps its
\* position, and the pool thread of the failed task is free again.
C11_FailureIsolated ==
    [][\A t \in 1..Len(tasks) :
         (tasks[t].pc # "finished" /\ tasks'[t].pc = "finished"
            /\ tasks'[t].raised # "none") =>
             /\ exit_code' = -1
             /\ on_message_received'
             /\ UNCHANGED <<main_pc, received, handled, hb_pc, hb_sample,
                            hb_cycles, trace, sent, http_posts>>
             /\ Len(tasks') = Len(tasks)
             /\ \A u \in 1..Len(tasks) : u # t => tasks'[u] = tasks[u]
             /\ Cardinality(Busy') < Cardinality(Busy)]_vars

C11_Witness ==
    \E t, u \in 1..Len(tasks) :
        /\ Raised(t)
        /\ u > t /\ Raised(u)
        /\ \E i \in 1..Len(trace) :
             trace[i].by = "status_update_task" /\ trace[i].op = "sleep"
        /\ hb_pc = "send"

\* C12: a task that could not start its child process still delivers a
\* result, of the error-wrapper shape, and ends without an exception.
C12_SpawnFailureDelivered ==
    \A t \in 1..Len(tasks) :
        (Finished(t) /\ tasks[t].spawned = <<>>) =>
            /\ tasks[t].raised = "none"
            /\ \E i \in ResultSends(t) : WrapperShape(sent[i].payload)

\* C13: a send_message that fails in a cycle of the status update task does
\* not end the task: after a failed send the loop is still alive.
C13_HeartbeatSurvivesSendFailure ==
    (\E i \in FailedSends : trace[i].by = "status_update_task") =>
        hb_pc \in {"sample", "send", "sleep"}

ByStatusTask(e) == e.by = "status_update_task"
HbTrace == SelectSeq(trace, ByStatusTask)
IsStatus(e) == e.src = "status"
StatusSent == SelectSeq(sent, IsStatus)
IsOkSend(e) == e.op = "send_message" /\ e.ok
HbDelivered == SelectSeq(HbTrace, IsOkSend)

\* C14: what the status update task does is a repetition of: one sample,
\* one send_message whose payload is the object with exactly cpu_usage and
\* memory_usage of that sample, one sleep of 600 seconds; so two consecutive
\* sends have exactly one sleep between them.  The sends that completed are
\* the status messages the transport got; check mode runs none of this.
C14_HeartbeatCycle ==
    /\ \A i \in 1..Len(HbTrace) :
         /\ HbTrace[i].op = IF i % 3 = 1 THEN "sample"
                            ELSE IF i % 3 = 2 THEN "send_message" ELSE "sleep"
         /\ HbTrace[i].op = "send_message" =>
              HbTrace[i].val =
                  <<"{", "\"cpu_usage\"", ": ", HbTrace[i - 1].val.cpu_usage, ", ",
                    "\"memory_usage\"", ": ", HbTrace[i - 1].val.memory_usage, "}">>
         /\ HbTrace[i].op = "sleep" =>
              HbTrace[i].val = 600 /\ HbTrace[i - 1].ok
    /\ Len(StatusSent) = Len(HbDelivered)
    /\ \A k \in 1..Len(StatusSent) : StatusSent[k].payload = HbDelivered[k].val
    /\ check_mode => (HbTrace = <<>> /\ hb_pc = "not created")

C14_Witness ==
    /\ Len(HbTrace) >= 5
    /\ HbTrace[2].ok /\ HbTrace[5].ok
    /\ HbTrace[2].val # HbTrace[5].val
    /\ Len(StatusSent) = 2
    /\ \E t \in 1..Len(tasks) : Finished(t)

ByMain(e) == e.by = "main"
MainTrace == SelectSeq(trace, ByMain)

\* C15: in check mode the handler is never registered and the status update
\* task never created; once the process has exited after a successful
\* connect, main() has made exactly one send_message, of the test payload,
\* then one disconnect, and the exit code is 0 if the send succeeded and 1
\* if it did not.
C15_CheckMode ==
    check_mode =>
        /\ ~on_message_received
        /\ hb_pc = "not created"
        /\ (~Running /\ Len(MainTrace) > 0 /\ MainTrace[1].ok) =>
             /\ Len(MainTrace) = 3
             /\ MainTrace[2].op = "send_message"
             /\ MainTrace[2].val =
                  <<"{", "\"test_message\"", ": ", "\"", "Test message from device",
                    "\"", "}">>
             /\ MainTrace[3].op = "disconnect"
             /\ exit_code = IF MainTrace[2].ok THEN 0 ELSE 1

IsPrefix(p, text) == Len(p) <= Len(text) /\ SubSeq(text, 1, Len(p)) = p

IsSuffix(q, text) ==
    Len(q) <= Len(text) /\ SubSeq(text, Len(text) - Len(q) + 1, Len(text)) = q

\* C17: a command task hands one command line to the child-process
\* launcher, and it is <interpreter> -c "<commands>": the resolved
\* interpreter, then the command text of the message, which only for
\* PowerShell has the preamble in front.
C17_CommandLineFraming ==
    \A t \in 1..Len(tasks) :
        Finished(t) =>
            /\ Len(tasks[t].spawned) = 1
            /\ IsPrefix(tasks[t].interpreter \o <<" -c \"">>, tasks[t].spawned[1])
            /\ IsSuffix(tasks[t].commands \o <<"\"">>, tasks[t].spawned[1])
            /\ ~Contains(tasks[t].interpreter, "powershell") =>
                 tasks[t].spawned[1] =
                     tasks[t].interpreter \o <<" -c \"">> \o tasks[t].commands
                         \o <<"\"">>

Queued(t) == tasks[t].pc = "queued"

\* C18 (as stated): there is no cap on simultaneous executions: a work item
\* never has to wait for an earlier command to finish, it can start at once.
C18_NoCap ==
    \A t \in 1..Len(tasks) :
        (Running /\ Queued(t)) => ENABLED run_handle_commands(t)

\* C18 (amended): the pool runs at most max_workers work items at a time;
\* a further work item waits in the executor's queue exactly while every
\* pool thread is busy, and starts once one is free.
C18_PoolCap ==
    /\ Cardinality(Busy) <= MaxWorkers
    /\ \A t \in 1..Len(tasks) :
         (Running /\ Queued(t)) =>
             (ENABLED run_handle_commands(t) <=> Cardinality(Busy) < MaxWorkers)

C18_Witness ==
    /\ Running
    /\ Cardinality(Busy) = MaxWorkers
    /\ \E t \in 1..Len(tasks) : Queued(t) /\ ~ENABLED run_handle_commands(t)

\* who is inside an await of device_client.send_message
Sending ==
    {<<"handle_commands", t>> : t \in {u \in 1..Len(tasks) : tasks[u].pc = "sending"}}
        \cup (IF hb_pc = "send" THEN {<<"status_update_task", 0>>} ELSE {})
        \cup (IF Running /\ main_pc = "check_send" THEN {<<"main", 0>>} ELSE {})

C20_NoOverrideFromMessages ==
    \A t \in 1..Len(tasks) :
        /\ tasks[t].interpreter_override = None
        /\ Finished(t) =>
             /\ tasks[t].interpreter = default_interpreter(os_type)
             /\ IsSuffix(tasks[t].commands, tasks[t].command)
             /\ ~IsPrefix(tasks[t].interpreter \o <<" -c \"">>, tasks[t].command)

C20_Witness ==
    \E t \in 1..Len(tasks) :
        /\ Finished(t)
        /\ "interpreter" \in received[tasks[t].msg].keys
        /\ received[tasks[t].msg].interpreter = <<"powershell">>
        /\ tasks[t].interpreter = <<"/bin/bash">>
        /\ tasks[t].command = tasks[t].commands

====
